---------------------------- MODULE Spec2Model ----------------------------
(***************************************************************************)
(* A model of poker.py: cards, the ten-way classification of a 5-card      *)
(* hand, the comparison of two hands, and the replacement search that      *)
(* swaps held cards for the leading cards of a deck.                       *)
(*                                                                         *)
(* A Card is a record [value, suit]; a Hand is the sequence Hand.cards.    *)
(* A Python string of card values is a sequence of one-letter strings.     *)
(* A predicate of the classifier returns its category number, or 0 for     *)
(* Python's False (the only falsy value these methods produce).            *)
(***************************************************************************)
EXTENDS Integers, Sequences, FiniteSets, TLC

VARIABLES pc, hand, deck, other, self_card, other_card, result, error,
          num, idx, winning_hand

vars == <<pc, hand, deck, other, self_card, other_card, result, error,
          num, idx, winning_hand>>

(***************************************************************************)
(* Module constants.                                                       *)
(***************************************************************************)
CARD_VALUE_ORDER == <<"a", "2", "3", "4", "5", "6", "7", "8", "9", "t", "j", "q", "k">>

SUITS == <<"h", "s", "c", "d">>

\* The number of cards of a hand.
HandSize == 5

\* Python's None, and the value of a variable no operation has set yet.
None == "None"

\* str.index / list.index on CARD_VALUE_ORDER, 0-based as in Python.
IndexOfValue ==
    [v \in {CARD_VALUE_ORDER[i] : i \in 1..Len(CARD_VALUE_ORDER)} |->
        (CHOOSE i \in 1..Len(CARD_VALUE_ORDER) : CARD_VALUE_ORDER[i] = v) - 1]

ValueIndex(v) == IndexOfValue[v]

Card(value, suit) == [value |-> value, suit |-> suit]

\* Card.from_string on a two-letter token given as <<value, suit>>.
from_string(card) == Card(card[1], card[2])

(***************************************************************************)
(* Bounds of the checked inputs.                                           *)
(***************************************************************************)
\* The classified hands are drawn from the first ClassifySuits suits and from
\* the ClassifyLowValues lowest and ClassifyHighValues highest card values.
ClassifySuits == 2

ClassifyLowValues == 5

ClassifyHighValues == 4

\* The two compared hands are drawn from the first ComparePoolSize cards of
\* HandListing.
ComparePoolSize == 6

\* The searched hand is drawn from the first HandPoolSize cards of HandListing,
\* the deck from the first DeckPoolSize cards of DeckListing, at most MaxDeckLen
\* of them.
HandPoolSize == 7

DeckPoolSize == 6

MaxDeckLen == 5

(***************************************************************************)
(* Helpers for Python's sorted(), set() and sequence slicing.              *)
(***************************************************************************)
\* sorted(values, key=lambda x: CARD_VALUE_ORDER.index(x)): a stable ascending
\* sort of a sequence of card values by their position in CARD_VALUE_ORDER.
RECURSIVE InsertByIndex(_, _)
InsertByIndex(x, s) ==
    IF s = << >> THEN <<x>>
    ELSE IF ValueIndex(x) < ValueIndex(Head(s)) THEN <<x>> \o s
         ELSE <<Head(s)>> \o InsertByIndex(x, Tail(s))

RECURSIVE SortedByIndex(_)
SortedByIndex(s) ==
    IF s = << >> THEN << >>
    ELSE InsertByIndex(s[Len(s)], SortedByIndex(SubSeq(s, 1, Len(s) - 1)))

SeqRange(s) == {s[i] : i \in 1..Len(s)}

\* s[:n]
Prefix(s, n) == SubSeq(s, 1, IF n < Len(s) THEN n ELSE Len(s))

(***************************************************************************)
(* Hand: the methods the classifier is built from.                         *)
(***************************************************************************)
\* Hand.__init__: the ValueError check on the number of cards.
HandSizeOk(cards) == Len(cards) = HandSize

_sort_by_value(h) ==
    SortedByIndex([i \in 1..Len(h) |-> h[i].value])

\* A variant that returns the last of the sorted values.
_max_values_returned(h) == _sort_by_value(h)[Len(h)]

\* The method evaluates the last sorted value and returns nothing.
_max_values(h) == None

_same_suit(h) ==
    LET head == h[1] IN \A i \in 1..Len(h) : h[i].suit = head.suit

\* The dict value -> number of cards of that value.
_count(h) ==
    [v \in {h[i].value : i \in 1..Len(h)} |->
        Cardinality({i \in 1..Len(h) : h[i].value = v})]

\* sorted(count.values())
RECURSIVE SortedValues(_)
SortedValues(count) ==
    IF DOMAIN count = {} THEN << >>
    ELSE LET k == CHOOSE x \in DOMAIN count :
                     \A y \in DOMAIN count : count[x] <= count[y]
             rest == [y \in DOMAIN count \ {k} |-> count[y]]
         IN <<count[k]>> \o SortedValues(rest)

\* values in CARD_VALUE_ORDER: the substring test.
IsSubstring(values, whole) ==
    \E off \in 0..(Len(whole) - Len(values)) :
        SubSeq(whole, off + 1, off + Len(values)) = values

\* A variant that also accepts the run ending at the ace (t j q k a).
_straight_ace_high(h) ==
    \/ IsSubstring(_sort_by_value(h), CARD_VALUE_ORDER)
    \/ _sort_by_value(h) = <<"a", "t", "j", "q", "k">>

_straight(h) == IsSubstring(_sort_by_value(h), CARD_VALUE_ORDER)

is_royal_flush(h) ==
    LET royal_flush_values == {"a", "k", "q", "j", "t"} IN
    IF _same_suit(h)
    THEN IF {h[i].value : i \in 1..Len(h)} = royal_flush_values THEN 1 ELSE 0
    ELSE 0

is_straight_flush(h) == IF _same_suit(h) /\ _straight(h) THEN 2 ELSE 0

is_poker(h) == IF <<1, 4>> = SortedValues(_count(h)) THEN 3 ELSE 0

is_full(h) == IF <<2, 3>> = SortedValues(_count(h)) THEN 4 ELSE 0

is_flush(h) == IF _same_suit(h) THEN 5 ELSE 0

is_straight(h) == IF _straight(h) THEN 6 ELSE 0

\* A variant that only asks for some value held three times.
is_set_any_three(h) ==
    IF \E v \in DOMAIN _count(h) : _count(h)[v] = 3 THEN 7 ELSE 0

is_set(h) == IF <<1, 1, 3>> = SortedValues(_count(h)) THEN 7 ELSE 0

is_two_pair(h) == IF <<1, 2, 2>> = SortedValues(_count(h)) THEN 8 ELSE 0

is_pair(h) == IF <<1, 1, 1, 2>> = SortedValues(_count(h)) THEN 9 ELSE 0

\* The tuple of method names classify_hand walks, and getattr on it.
ClassifyOrder ==
    <<"is_royal_flush", "is_straight_flush", "is_poker", "is_full", "is_flush",
      "is_straight", "is_set", "is_two_pair", "is_pair">>

CallPredicate(attrname, h) ==
    CASE attrname = "is_royal_flush"    -> is_royal_flush(h)
      [] attrname = "is_straight_flush" -> is_straight_flush(h)
      [] attrname = "is_poker"          -> is_poker(h)
      [] attrname = "is_full"           -> is_full(h)
      [] attrname = "is_flush"          -> is_flush(h)
      [] attrname = "is_straight"       -> is_straight(h)
      [] attrname = "is_set"            -> is_set(h)
      [] attrname = "is_two_pair"       -> is_two_pair(h)
      [] attrname = "is_pair"           -> is_pair(h)

RECURSIVE ClassifyFrom(_, _)
ClassifyFrom(h, i) ==
    IF i > Len(ClassifyOrder) THEN 10
    ELSE LET handtype == CallPredicate(ClassifyOrder[i], h) IN
         IF handtype # 0 THEN handtype ELSE ClassifyFrom(h, i + 1)

\* A variant that tries is_flush before every other predicate.
classify_hand_flush_first(h) ==
    IF is_flush(h) # 0 THEN is_flush(h) ELSE ClassifyFrom(h, 1)

classify_hand(h) == ClassifyFrom(h, 1)

human_classify(h) ==
    LET klass == <<"royal-flush", "straight-flush", "four-of-a-kind", "full-house",
                   "flush", "straight", "three-of-a-kind", "two-pairs", "one-pair",
                   "highest-card">>
    IN klass[classify_hand(h)]

(***************************************************************************)
(* Card.__cmp__ and Hand.__cmp__.                                          *)
(***************************************************************************)
\* Card.__cmp__ raises ValueError for cards of different suits.
CardCmpRaises(self, other_) == self.suit # other_.suit

\* Its return value otherwise: both indexes are taken from self.value.
CardCmp(self, other_) ==
    LET self_idx == ValueIndex(self.value)
        other_index == ValueIndex(self.value)
    IN other_index - self_idx

\* Hand.__cmp__(self, other).
HandCmp(self, other_) ==
    LET handtype == classify_hand(self)
        other_handtype == classify_hand(other_)
    IN IF handtype < other_handtype THEN 1
       ELSE IF handtype > other_handtype THEN -1
       ELSE IF handtype = other_handtype /\ handtype = 10 THEN
            LET max_ == _max_values(self)
                max_other == _max_values(other_)
            IN IF max_ = max_other THEN 0
               ELSE IF "a" = max_ THEN 1
               ELSE IF "a" = max_other THEN -1
               ELSE ValueIndex(max_other) - ValueIndex(max_)
       ELSE 0

\* A variant of the test in search with the comparison turned round.
HandLess(new_hand, old_hand) == HandCmp(new_hand, old_hand) < 0

\* A variant of the test in search that also takes an equal hand.
HandGreaterOrEqual(new_hand, old_hand) == HandCmp(new_hand, old_hand) >= 0

\* new_hand > winning_hand, which Python 2 answers from __cmp__.
HandGreater(new_hand, old_hand) == HandCmp(new_hand, old_hand) > 0

(***************************************************************************)
(* The classifier applied to every hand of a bounded pack.                 *)
(***************************************************************************)
\* The values of the pack: the lowest and the highest of CARD_VALUE_ORDER.
ClassifyValues ==
    {CARD_VALUE_ORDER[i] : i \in (1..ClassifyLowValues) \cup
        ((Len(CARD_VALUE_ORDER) - ClassifyHighValues + 1)..Len(CARD_VALUE_ORDER))}

\* The pack in a fixed listing: each of its values in each of its suits.
ClassifyPack ==
    LET n == Len(CARD_VALUE_ORDER) * ClassifySuits
        all == [k \in 1..n |->
                  Card(CARD_VALUE_ORDER[((k - 1) \div ClassifySuits) + 1],
                       SUITS[((k - 1) % ClassifySuits) + 1])]
        keep == {k \in 1..n : all[k].value \in ClassifyValues}
        RECURSIVE List(_)
        List(ks) == IF ks = {} THEN << >>
                    ELSE LET k == CHOOSE x \in ks : \A y \in ks : x <= y
                         IN <<all[k]>> \o List(ks \ {k})
    IN List(keep)

Idle ==
    /\ deck = << >> /\ other = None /\ self_card = None /\ other_card = None
    /\ result = None /\ error = None /\ num = 0 /\ idx = 0 /\ winning_hand = None

\* A hand is any five cards of the pack, a card possibly more than once (no
\* uniqueness is enforced); each multiset of cards is drawn in one order.
InitClassify ==
    /\ pc = "constructed"
    /\ LET pack == ClassifyPack
           n == Len(pack)
       IN \E c1 \in 1..n : \E c2 \in c1..n : \E c3 \in c2..n :
          \E c4 \in c3..n : \E c5 \in c4..n :
              hand = <<pack[c1], pack[c2], pack[c3], pack[c4], pack[c5]>>
    /\ Idle

\* Hand(cards).classify_hand()
ClassifyHand ==
    /\ pc = "constructed"
    /\ HandSizeOk(hand)
    /\ result' = classify_hand(hand)
    /\ pc' = "classified"
    /\ UNCHANGED <<hand, deck, other, self_card, other_card, error, num, idx, winning_hand>>

NextClassify == ClassifyHand

SpecClassify == InitClassify /\ [][NextClassify]_vars

(***************************************************************************)
(* The ten categories as the rules of the game state them, on the cards    *)
(* of a hand; the properties below compare the classifier with them.       *)
(***************************************************************************)
RanksOf(h) == {h[i].value : i \in 1..Len(h)}

TimesHeld(h, v) == Cardinality({i \in 1..Len(h) : h[i].value = v})

OneSuit(h) == \A i, j \in 1..Len(h) : h[i].suit = h[j].suit

\* Five different ranks at consecutive positions of the order with the ace lowest.
Run(h) ==
    /\ Cardinality(RanksOf(h)) = 5
    /\ \E lo \in 0..(Len(CARD_VALUE_ORDER) - 5) :
          {ValueIndex(v) : v \in RanksOf(h)} = lo..(lo + 4)

Rule(n, h) ==
    CASE n = 1 -> OneSuit(h) /\ RanksOf(h) = {"t", "j", "q", "k", "a"}
      [] n = 2 -> OneSuit(h) /\ Run(h)
      [] n = 3 -> Cardinality(RanksOf(h)) = 2 /\ \E v \in RanksOf(h) : TimesHeld(h, v) = 4
      [] n = 4 -> Cardinality(RanksOf(h)) = 2 /\ \E v \in RanksOf(h) : TimesHeld(h, v) = 3
      [] n = 5 -> OneSuit(h)
      [] n = 6 -> Run(h)
      [] n = 7 -> Cardinality(RanksOf(h)) = 3 /\ \E v \in RanksOf(h) : TimesHeld(h, v) = 3
      [] n = 8 -> Cardinality(RanksOf(h)) = 3 /\ \A v \in RanksOf(h) : TimesHeld(h, v) <= 2
      [] n = 9 -> Cardinality(RanksOf(h)) = 4
      [] n = 10 -> FALSE

FirstRule(h) ==
    IF \E n \in 1..9 : Rule(n, h)
    THEN CHOOSE n \in 1..9 : Rule(n, h) /\ \A m \in 1..(n - 1) : ~Rule(m, h)
    ELSE 10

\* C4: classify_hand returns a code in 1..10, the number of the first rule that
\* holds in the order royal flush, straight flush, four of a kind, full house,
\* flush, straight, three of a kind, two pair, one pair; and 10 exactly when
\* none of the nine holds.
C4_ClassifyFirstRule ==
    pc = "classified" =>
        /\ result \in 1..10
        /\ result = FirstRule(hand)
        /\ (result = 10 <=> \A n \in 1..9 : ~Rule(n, hand))

\* A straight flush: rules 2, 5 and 6 all hold and the first of them is returned.
C4_Witness ==
    /\ pc = "classified" /\ result = 2
    /\ Rule(2, hand) /\ Rule(5, hand) /\ Rule(6, hand)

\* The classifier's own ten predicates on a hand; the tenth, highest card, is
\* classify_hand's fallback when the nine methods all return False.
PredicateHolds(n, h) ==
    IF n = 10 THEN \A i \in 1..Len(ClassifyOrder) : CallPredicate(ClassifyOrder[i], h) = 0
    ELSE CallPredicate(ClassifyOrder[n], h) # 0

\* C5 as stated: exactly one of the ten category predicates holds of a hand.
C5_ExactlyOnePredicate ==
    pc = "classified" =>
        Cardinality({n \in 1..10 : PredicateHolds(n, hand)}) = 1

\* C5 amended: at least one of the ten predicates holds, classify_hand returns one
\* code in 1..10 whose predicate holds, and at most one of the eight predicates
\* other than flush (5) and straight (6) holds; those two can hold together with
\* another predicate.
C5_PredicatesAmended ==
    pc = "classified" =>
        /\ \E n \in 1..10 : PredicateHolds(n, hand)
        /\ result \in 1..10 /\ PredicateHolds(result, hand)
        /\ Cardinality({n \in (1..10) \ {5, 6} : PredicateHolds(n, hand)}) <= 1

\* A royal flush: is_royal_flush and is_flush both hold.
C5_Witness ==
    /\ pc = "classified"
    /\ PredicateHolds(1, hand) /\ PredicateHolds(5, hand)

\* C6: a hand of the ranks t, j, q, k, a not all of one suit is highest-card (10),
\* not a straight; the ace-low run a, 2, 3, 4, 5 of mixed suits is a straight (6).
C6_AceHighNotStraight ==
    pc = "classified" /\ ~OneSuit(hand) =>
        /\ (RanksOf(hand) = {"t", "j", "q", "k", "a"} => result = 10)
        /\ (RanksOf(hand) = {"a", "2", "3", "4", "5"} => result = 6)

C6_Witness ==
    /\ pc = "classified" /\ ~OneSuit(hand)
    /\ RanksOf(hand) = {"t", "j", "q", "k", "a"}
    /\ result = 10

(***************************************************************************)
(* Card.__cmp__ applied to every pair of cards of the full pack.           *)
(***************************************************************************)
AllCards == {Card(CARD_VALUE_ORDER[i], SUITS[j]) :
                i \in 1..Len(CARD_VALUE_ORDER), j \in 1..Len(SUITS)}

InitCard ==
    /\ pc = "constructed"
    /\ self_card \in AllCards
    /\ other_card \in AllCards
    /\ hand = << >> /\ deck = << >> /\ other = None
    /\ result = None /\ error = None /\ num = 0 /\ idx = 0 /\ winning_hand = None

CardCmpRaise ==
    /\ pc = "constructed"
    /\ CardCmpRaises(self_card, other_card)
    /\ error' = "ValueError: Comparing different cards."
    /\ pc' = "raised"
    /\ UNCHANGED <<hand, deck, other, self_card, other_card, result, num, idx, winning_hand>>

CardCmpReturn ==
    /\ pc = "constructed"
    /\ ~CardCmpRaises(self_card, other_card)
    /\ result' = CardCmp(self_card, other_card)
    /\ pc' = "compared"
    /\ UNCHANGED <<hand, deck, other, self_card, other_card, error, num, idx, winning_hand>>

NextCard == CardCmpRaise \/ CardCmpReturn

SpecCard == InitCard /\ [][NextCard]_vars

\* C7: for two cards of one suit the comparison returns the difference of their
\* positions in the order a < 2 < ... < k: zero if and only if the values are
\* equal, and otherwise nonzero with the sign telling which value is higher.
C7_CardCmpIsRankDifference ==
    pc = "compared" =>
        LET d == ValueIndex(other_card.value) - ValueIndex(self_card.value)
        IN /\ (result = 0 <=> self_card.value = other_card.value)
           /\ (result > 0 <=> d > 0)
           /\ (result < 0 <=> d < 0)

(***************************************************************************)
(* Hand.__cmp__ applied to every two hands of a bounded pool of cards.     *)
(***************************************************************************)
HandListing ==
    <<from_string(<<"t", "h">>), from_string(<<"j", "h">>), from_string(<<"q", "c">>),
      from_string(<<"3", "d">>), from_string(<<"5", "s">>), from_string(<<"2", "h">>),
      from_string(<<"q", "d">>), from_string(<<"k", "d">>)>>

DeckListing ==
    <<from_string(<<"6", "s">>), from_string(<<"k", "h">>), from_string(<<"a", "h">>),
      from_string(<<"q", "h">>), from_string(<<"9", "h">>), from_string(<<"t", "h">>),
      from_string(<<"q", "c">>), from_string(<<"2", "s">>)>>

\* The hands of the first n cards of a listing: five cards, a card possibly
\* more than once, each multiset of cards in one order.
IsHandOf(h, listing, n) ==
    \E c1 \in 1..n : \E c2 \in c1..n : \E c3 \in c2..n :
    \E c4 \in c3..n : \E c5 \in c4..n :
        h = <<listing[c1], listing[c2], listing[c3], listing[c4], listing[c5]>>

InitCompare ==
    /\ pc = "constructed"
    /\ IsHandOf(hand, HandListing, ComparePoolSize)
    /\ IsHandOf(other, HandListing, ComparePoolSize)
    /\ deck = << >> /\ self_card = None /\ other_card = None
    /\ result = None /\ error = None /\ num = 0 /\ idx = 0 /\ winning_hand = None

\* cmp(hand, other); no path of Hand.__cmp__ raises.
HandCompare ==
    /\ pc = "constructed"
    /\ HandSizeOk(hand) /\ HandSizeOk(other)
    /\ result' = HandCmp(hand, other)
    /\ pc' = "compared"
    /\ UNCHANGED <<hand, deck, other, self_card, other_card, error, num, idx, winning_hand>>

NextCompare == HandCompare

SpecCompare == InitCompare /\ [][NextCompare]_vars

CardKeyOf ==
    [c \in {Card(CARD_VALUE_ORDER[i], SUITS[j]) :
                i \in 1..Len(CARD_VALUE_ORDER), j \in 1..Len(SUITS)} |->
        LET j == CHOOSE k \in 1..Len(SUITS) : SUITS[k] = c.suit
        IN ValueIndex(c.value) * Len(SUITS) + (j - 1)]

CardKey(c) == CardKeyOf[c]

\* list(cards) / tuple(cards) of a set of cards.
RECURSIVE SetList(_)
SetList(S) ==
    IF S = {} THEN << >>
    ELSE LET c == CHOOSE x \in S : \A y \in S : CardKey(x) <= CardKey(y)
         IN <<c>> \o SetList(S \ {c})

\* itertools.combinations(range(lo, n + 1), r) as index sets, in its
\* lexicographic order.
RECURSIVE IndexCombos(_, _, _)
IndexCombos(lo, n, r) ==
    IF r = 0 THEN << {} >>
    ELSE IF lo > n THEN << >>
    ELSE LET with == IndexCombos(lo + 1, n, r - 1)
         IN [i \in 1..Len(with) |-> {lo} \cup with[i]] \o IndexCombos(lo + 1, n, r)

\* The index combinations of every pool of a hand's cards, for every size.
IndexCombosOf ==
    [n \in 0..HandSize |-> [r \in 0..HandSize |-> IndexCombos(1, n, r)]]

\* combinations(_hand, num)
Combinations(S, r) ==
    LET pool == SetList(S)
        ixs == IndexCombosOf[Len(pool)][r]
    IN [i \in 1..Len(ixs) |-> {pool[j] : j \in ixs[i]}]

\* The end of xrange(1, 6).
SearchStop == 6

\* A variant that draws the replacement cards from the back of the deck.
DrawnFromBack(d, n) ==
    SubSeq(d, (IF n < Len(d) THEN Len(d) - n ELSE 0) + 1, Len(d))

\* deck[:num]
Drawn(d, n) == Prefix(d, n)

\* The cards of the candidate for the i-th combination of size n.
CandidateCards(h, d, n, i) ==
    LET _hand == SeqRange(h)
        t == Combinations(_hand, n)[i]
    IN (_hand \ t) \cup SeqRange(Drawn(d, n))

\* How many combinations of size r the generator yields.
NumCombinations(S, r) == Len(IndexCombosOf[Cardinality(S)][r])

\* The first size from n on that has a combination, or the end of the range.
RECURSIVE FirstNum(_, _)
FirstNum(h, n) ==
    IF n >= SearchStop THEN SearchStop
    ELSE IF NumCombinations(SeqRange(h), n) > 0 THEN n
    ELSE FirstNum(h, n + 1)

\* The generator's position after the i-th combination of size n.
NextNum(h, n, i) ==
    IF i < NumCombinations(SeqRange(h), n) THEN n ELSE FirstNum(h, n + 1)

NextIdx(h, n, i) ==
    IF i < NumCombinations(SeqRange(h), n) THEN i + 1 ELSE 1

RECURSIVE SetListOfIndexes(_, _)
SetListOfIndexes(listing, ks) ==
    IF ks = {} THEN << >>
    ELSE LET k == CHOOSE x \in ks : \A y \in ks : x <= y
         IN <<listing[k]>> \o SetListOfIndexes(listing, ks \ {k})

\* The decks of the first n cards of a listing: any of them, in listing order.
IsDeckOf(d, listing, n) ==
    \E keep \in SUBSET (1..n) :
        /\ Cardinality(keep) <= MaxDeckLen
        /\ d = SetListOfIndexes(listing, keep)

InitSearch ==
    /\ pc = "called"
    /\ IsHandOf(hand, HandListing, HandPoolSize)
    /\ IsDeckOf(deck, DeckListing, DeckPoolSize)
    /\ other = None /\ self_card = None /\ other_card = None
    /\ result = None /\ error = None /\ num = 0 /\ idx = 0 /\ winning_hand = None

\* winning_hand = hand, and the generator is started.
SearchBegin ==
    /\ pc = "called"
    /\ HandSizeOk(hand)
    /\ winning_hand' = hand
    /\ num' = FirstNum(hand, 1)
    /\ idx' = 1
    /\ pc' = "searching"
    /\ UNCHANGED <<hand, deck, other, self_card, other_card, result, error>>

\* cls(list(cards)) raises: the candidate does not have five cards.
SearchRaise ==
    /\ pc = "searching"
    /\ num < SearchStop
    /\ ~HandSizeOk(SetList(CandidateCards(hand, deck, num, idx)))
    /\ error' = "ValueError: A hand has 5 cards."
    /\ pc' = "raised"
    /\ UNCHANGED <<hand, deck, other, self_card, other_card, result, num, idx, winning_hand>>

\* The candidate is greater than winning_hand and becomes it.
SearchReplace ==
    /\ pc = "searching"
    /\ num < SearchStop
    /\ LET new_hand == SetList(CandidateCards(hand, deck, num, idx)) IN
        /\ HandSizeOk(new_hand)
        /\ HandGreater(new_hand, winning_hand)
        /\ winning_hand' = new_hand
    /\ num' = NextNum(hand, num, idx)
    /\ idx' = NextIdx(hand, num, idx)
    /\ UNCHANGED <<pc, hand, deck, other, self_card, other_card, result, error>>

\* The candidate is not greater than winning_hand.
SearchKeep ==
    /\ pc = "searching"
    /\ num < SearchStop
    /\ LET new_hand == SetList(CandidateCards(hand, deck, num, idx)) IN
        /\ HandSizeOk(new_hand)
        /\ ~HandGreater(new_hand, winning_hand)
    /\ num' = NextNum(hand, num, idx)
    /\ idx' = NextIdx(hand, num, idx)
    /\ UNCHANGED <<pc, hand, deck, other, self_card, other_card, result, error, winning_hand>>

\* The generator is exhausted: return winning_hand.
SearchReturn ==
    /\ pc = "searching"
    /\ num = SearchStop
    /\ result' = winning_hand
    /\ pc' = "returned"
    /\ UNCHANGED <<hand, deck, other, self_card, other_card, error, num, idx, winning_hand>>

NextSearch == SearchBegin \/ SearchRaise \/ SearchReplace \/ SearchKeep \/ SearchReturn

SpecSearch == InitSearch /\ [][NextSearch]_vars

(***************************************************************************)
(* Properties of the search.                                               *)
(***************************************************************************)
\* The hand's five cards are all different.
DistinctHand(h) == Cardinality(SeqRange(h)) = Len(h)

\* The deck's cards differ from each other and from the hand's.
FreshDeck(h, d) ==
    /\ Cardinality(SeqRange(d)) = Len(d)
    /\ SeqRange(d) \cap SeqRange(h) = {}

\* The candidates as the search is described: for each k in 1..5 and each
\* k-subset T of the hand's cards, the hand minus T plus the first k deck cards.
SpecCandidates(h, d) ==
    {(SeqRange(h) \ T) \cup {d[i] : i \in 1..Cardinality(T)} :
        T \in (SUBSET SeqRange(h)) \ {{}}}

CategoryOfCards(S) == classify_hand(SetList(S))

\* The highest value of a set of cards, the ace playing high.
TopRank(S) ==
    LET ranks == {IF c.value = "a" THEN Len(CARD_VALUE_ORDER) ELSE ValueIndex(c.value) : c \in S}
    IN CHOOSE r \in ranks : \A q \in ranks : q <= r

\* C1: whenever search returns, the category code of the returned hand is not
\* higher than the category code of the starting hand.
C1_ResultNeverWorse ==
    pc = "returned" => classify_hand(result) <= classify_hand(hand)

\* The search returned a hand of a strictly better category than the start.
C1_Witness ==
    pc = "returned" /\ classify_hand(result) < classify_hand(hand)

\* C2: for a hand of 5 distinct cards and a deck of at least 5 cards distinct
\* from each other and from the hand, the category of the returned hand is the
\* minimum category over the starting hand and the 31 candidates.
C2_ResultIsBestCandidate ==
    pc = "returned" /\ DistinctHand(hand) /\ Len(deck) >= 5 /\ FreshDeck(hand, deck) =>
        LET cats == {classify_hand(hand)} \cup
                    {CategoryOfCards(S) : S \in SpecCandidates(hand, deck)}
        IN /\ Cardinality(SpecCandidates(hand, deck)) = 31
           /\ classify_hand(result) \in cats
           /\ \A c \in cats : classify_hand(result) <= c

\* A search whose best candidate replaces exactly some of the cards: the
\* result is better than the start and better than the deck's five cards.
C2_Witness ==
    /\ pc = "returned" /\ DistinctHand(hand) /\ Len(deck) >= 5 /\ FreshDeck(hand, deck)
    /\ classify_hand(result) < classify_hand(hand)
    /\ classify_hand(result) < CategoryOfCards({deck[i] : i \in 1..5})

\* C3 as stated, for the hands and decks without a repeated card: search accepts
\* a deck of any length, the empty deck included, and does not raise.
C3_SearchAcceptsAnyDeck ==
    DistinctHand(hand) /\ FreshDeck(hand, deck) => pc # "raised"

\* C9 as stated: with a deck of at least 5 cards every candidate has exactly 5
\* cards, also when the hand holds a card twice or the deck's leading cards
\* repeat a card still held, so search never raises the hand-size error.
C9_CandidatesHaveFiveCards ==
    Len(deck) >= 5 => pc # "raised"

=============================================================================
